---- MODULE Spec2Model ----
(***************************************************************************)
(* Model of tools/Compliance-mapper.py: class ComplianceMapper.            *)
(*                                                                         *)
(* Strings that the code splits or joins (compliance references, standard  *)
(* ids, control ids, error messages) are sequences of one-character        *)
(* strings, so that str.split and str.join are computed character by       *)
(* character.  Policy names, which the code only stores, are plain strings.*)
(* A Python dict is a function whose DOMAIN is the dict's key set; a key   *)
(* that is absent from the dict is absent from the DOMAIN.                 *)
(***************************************************************************)
EXTENDS Integers, Sequences, FiniteSets, TLC

VARIABLES standards, pc, call, ret, examined

vars == <<standards, pc, call, ret, examined>>

----------------------------------------------------------------------------
(* Bounds of the model *)

\* longest reference string enumerated character by character
MaxRefLen == 5
\* longest metadata.compliance list of a policy passed to map_policy_to_standards
MaxRefs == 2
\* longest batch of policies passed to a report or a gap check
MaxPolicies == 2
\* longest required_controls list passed to a gap check
MaxRequired == 3

----------------------------------------------------------------------------
(* Generic helpers *)

Range(s) == {s[i] : i \in DOMAIN s}

\* the sequences over S of length k, and of length at most n
RECURSIVE SeqsOfLen(_, _)
SeqsOfLen(S, k) ==
  IF k = 0 THEN {<<>>}
  ELSE {Append(q, x) : q \in SeqsOfLen(S, k - 1), x \in S}

SeqsUpTo(S, n) == UNION {SeqsOfLen(S, k) : k \in 0..n}

\* dict.get(k, default)
Get(d, k, default) == IF k \in DOMAIN d THEN d[k] ELSE default

\* {} : the dict with no key
EmptyDict == [k \in {} |-> <<>>]

\* list(a_set): a list holding each element once, in the set's iteration
\* order, which the language does not fix; every order is possible
RECURSIVE ListsOf(_)
ListsOf(S) ==
  IF S = {} THEN {<<>>}
  ELSE UNION {{Append(q, x) : q \in ListsOf(S \ {x})} : x \in S}

----------------------------------------------------------------------------
(* Strings *)

Hyphen == <<"-">>

\* str.split('-'): the maximal hyphen-free pieces, in order; always at
\* least one piece, and pieces may be empty
RECURSIVE SplitFrom(_, _, _, _)
SplitFrom(s, i, cur, acc) ==
  IF i > Len(s) THEN Append(acc, cur)
  ELSE IF s[i] = "-" THEN SplitFrom(s, i + 1, <<>>, Append(acc, cur))
  ELSE SplitFrom(s, i + 1, Append(cur, s[i]), acc)

Split(s) == SplitFrom(s, 1, <<>>, <<>>)

\* '-'.join(parts)
RECURSIVE Join(_)
Join(parts) ==
  IF Len(parts) = 0 THEN <<>>
  ELSE IF Len(parts) = 1 THEN parts[1]
  ELSE parts[1] \o Hyphen \o Join(Tail(parts))

----------------------------------------------------------------------------
(* Floating point *)

(***************************************************************************)
(* Line 160 is evaluated in IEEE-754 binary64: len(...) / len(...) is the  *)
(* correctly rounded quotient of two ints, and "* 100" multiplies that     *)
(* double by 100.0 and rounds again.  A double is modelled by its binary   *)
(* exponent and its 53 significand bits, most significant first: the value *)
(* of [exp |-> e, mant |-> m] is 1.m[2]m[3]...m[53] * 2^e; zero has the     *)
(* empty significand.  Every value line 160 can produce is a normal number *)
(* or zero, so subnormals, infinities and NaN are not modelled.            *)
(***************************************************************************)
MantissaBits == 53

Zeros(k) == [i \in 1..k |-> 0]

\* the bit of weight 2^i in the bit sequence a (most significant bit first)
BitAt(a, i) == IF i < Len(a) THEN a[Len(a) - i] ELSE 0

\* the binary digits of the natural number n, most significant first
RECURSIVE BitsOfNat(_)
BitsOfNat(n) == IF n = 0 THEN <<>> ELSE Append(BitsOfNat(n \div 2), n % 2)

\* a + 1 on a bit sequence that is not all ones: the trailing ones and the
\* zero before them flip
Increment(a) ==
  [i \in 1..Len(a) |-> IF \A j \in (i + 1)..Len(a) : a[j] = 1 THEN 1 - a[i] ELSE a[i]]

\* round-to-nearest, ties-to-even, of the number whose leading digits are
\* bits (bits[1] = 1, weight 2^e); sticky tells that non-zero digits follow
RoundToDouble(bits, e, sticky) ==
  LET kept == SubSeq(bits, 1, MantissaBits)
      rest == SubSeq(bits, MantissaBits + 1, Len(bits))
      half == rest # <<>> /\ rest[1] = 1
      above == sticky \/ \E i \in 2..Len(rest) : rest[i] = 1
      up == half /\ (above \/ kept[MantissaBits] = 1)
  IN IF ~up THEN [exp |-> e, mant |-> kept]
     ELSE IF \A i \in 1..MantissaBits : kept[i] = 1
     THEN [exp |-> e + 1, mant |-> <<1>> \o Zeros(MantissaBits - 1)]
     ELSE [exp |-> e, mant |-> Increment(kept)]

DoubleZero == [exp |-> 0, mant |-> <<>>]

\* int -> float conversion of a natural number below 2^53 (exact)
DoubleOfNat(n) ==
  IF n = 0 THEN DoubleZero
  ELSE [exp |-> Len(BitsOfNat(n)) - 1,
        mant |-> BitsOfNat(n) \o Zeros(MantissaBits - Len(BitsOfNat(n)))]

\* k further binary digits of r / d (r < d) appended to acc, and the remainder
RECURSIVE QuotientBits(_, _, _, _)
QuotientBits(r, d, k, acc) ==
  IF k = 0 THEN [bits |-> acc, rem |-> r]
  ELSE IF 2 * r >= d THEN QuotientBits(2 * r - d, d, k - 1, Append(acc, 1))
  ELSE QuotientBits(2 * r, d, k - 1, Append(acc, 0))

\* n / d = (num / den) * 2^e with 1 <= num / den < 2
RECURSIVE ScaledQuotient(_, _, _)
ScaledQuotient(n, d, e) ==
  IF n < d THEN ScaledQuotient(2 * n, d, e - 1)
  ELSE IF n >= 2 * d THEN ScaledQuotient(n, 2 * d, e + 1)
  ELSE [num |-> n, den |-> d, e |-> e]

\* int / int true division, d > 0: the double nearest to n / d
DoubleDivide(n, d) ==
  IF n = 0 THEN DoubleZero
  ELSE LET s == ScaledQuotient(n, d, 0)
           q == QuotientBits(s.num - s.den, s.den, MantissaBits, <<1>>)
       IN RoundToDouble(q.bits, s.e, q.rem # 0)

\* TLC integers have 32 bits, so the 106-bit product of two significands is
\* computed on digits of LimbBits bits, least significant digit first
LimbBits == 11

Limbs == (MantissaBits + LimbBits - 1) \div LimbBits

RECURSIVE NatOfBits(_)
NatOfBits(bits) ==
  IF bits = <<>> THEN 0
  ELSE 2 * NatOfBits(SubSeq(bits, 1, Len(bits) - 1)) + bits[Len(bits)]

\* digit t of the bit sequence a
LimbAt(a, t) == NatOfBits([i \in 1..LimbBits |-> BitAt(a, LimbBits * t + LimbBits - i)])

\* the sum over i = lo..hi of (digit i of a) * (digit t - i of b)
RECURSIVE ColumnSum(_, _, _, _, _)
ColumnSum(a, b, t, lo, hi) ==
  IF lo > hi THEN 0
  ELSE LimbAt(a, lo) * LimbAt(b, t - lo) + ColumnSum(a, b, t, lo + 1, hi)

\* the digits of a * b: column t plus the carry of the columns below it
RECURSIVE ProductLimbs(_, _, _, _, _)
ProductLimbs(a, b, t, carry, acc) ==
  IF t = 2 * Limbs THEN acc
  ELSE LET column == carry + ColumnSum(a, b, t, 0, t)
       IN ProductLimbs(a, b, t + 1, column \div (2 ^ LimbBits),
                       Append(acc, column % (2 ^ LimbBits)))

\* a * b as a bit sequence, most significant bit first, no leading zero
BitsMul(a, b) ==
  LET limbs == ProductLimbs(a, b, 0, 0, <<>>)
      bit(k) == (limbs[(k \div LimbBits) + 1] \div (2 ^ (k % LimbBits))) % 2
      len == IF bit(Len(a) + Len(b) - 1) = 1 THEN Len(a) + Len(b) ELSE Len(a) + Len(b) - 1
  IN [i \in 1..len |-> bit(len - i)]

\* float * float: the exact product of the significands, rounded once
DoubleMultiply(x, y) ==
  IF x.mant = <<>> \/ y.mant = <<>> THEN DoubleZero
  ELSE LET product == BitsMul(x.mant, y.mant)
       IN RoundToDouble(product, x.exp + y.exp + Len(product) - (2 * MantissaBits - 1), FALSE)

----------------------------------------------------------------------------
(* Reference parsing: STANDARD-ID[-CONTROL-ID] *)

\* standard_id = '-'.join(parts[:2]) if len(parts) >= 2 else ref
StandardId(ref) ==
  LET parts == Split(ref)
  IN IF Len(parts) >= 2 THEN Join(SubSeq(parts, 1, 2)) ELSE ref

\* if len(parts) > 2
HasControl(ref) == Len(Split(ref)) > 2

\* a plausible slip: only the third token is taken as the control id
ControlIdThirdToken(ref) ==
  LET parts == Split(ref) IN parts[3]

\* control_id = '-'.join(parts[2:])
ControlId(ref) ==
  LET parts == Split(ref) IN Join(SubSeq(parts, 3, Len(parts)))

\* a plausible slip: the catalog is not consulted
StandardKnownAlways(stds, standard_id) == TRUE

\* if standard_id in self.standards
StandardKnown(stds, standard_id) == standard_id \in DOMAIN stds

\* the names one pass of the loop body (lines 81-90) binds for a reference:
\* standard_id always; control_id only inside "if standard_id in
\* self.standards" and "if len(parts) > 2"
ParseResult(stds, ref) ==
  IF StandardKnown(stds, StandardId(ref)) /\ HasControl(ref)
  THEN [standard_id |-> StandardId(ref), control_id |-> ControlId(ref)]
  ELSE [standard_id |-> StandardId(ref)]

----------------------------------------------------------------------------
(* map_policy_to_standards *)

\* a plausible slip: the standard's key is created only together with a
\* control id
MapRefKeyWithControlOnly(stds, mapping, ref) ==
  LET standard_id == StandardId(ref)
  IN IF StandardKnown(stds, standard_id) /\ HasControl(ref)
     THEN [k \in DOMAIN mapping \cup {standard_id} |->
             IF k = standard_id
             THEN Append(Get(mapping, k, <<>>), ControlId(ref))
             ELSE mapping[k]]
     ELSE mapping

\* a plausible slip: a control id already listed is not appended again
MapRefDeduplicating(stds, mapping, ref) ==
  LET standard_id == StandardId(ref)
  IN IF StandardKnown(stds, standard_id)
     THEN LET created == [k \in DOMAIN mapping \cup {standard_id} |->
                            Get(mapping, k, <<>>)]
          IN IF HasControl(ref) /\ ControlId(ref) \notin Range(created[standard_id])
             THEN [created EXCEPT ![standard_id] = Append(@, ControlId(ref))]
             ELSE created
     ELSE mapping

\* one iteration of the loop over compliance_refs
MapRef(stds, mapping, ref) ==
  LET standard_id == StandardId(ref)
  IN IF StandardKnown(stds, standard_id)
     THEN LET created == [k \in DOMAIN mapping \cup {standard_id} |->
                            Get(mapping, k, <<>>)]
          IN IF HasControl(ref)
             THEN [created EXCEPT ![standard_id] = Append(@, ControlId(ref))]
             ELSE created
     ELSE mapping

RECURSIVE MapRefs(_, _, _, _)
MapRefs(stds, mapping, refs, i) ==
  IF i > Len(refs) THEN mapping
  ELSE MapRefs(stds, MapRef(stds, mapping, refs[i]), refs, i + 1)

\* metadata = policy.get('metadata', {}); metadata.get('compliance', [])
ComplianceRefs(policy) == Get(Get(policy, "metadata", EmptyDict), "compliance", <<>>)

MapPolicyToStandardsOf(stds, policy) ==
  MapRefs(stds, EmptyDict, ComplianceRefs(policy), 1)

----------------------------------------------------------------------------
(* generate_compliance_report *)

\* policy_name = policy.get('metadata', {}).get('name', 'unknown')
PolicyName(policy) == Get(Get(policy, "metadata", EmptyDict), "name", "unknown")

\* a plausible slip: the controls of the latest policy replace the ones
\* gathered so far
UpdateControlsOverwriting(covered, controls) == Range(controls)

\* report["summary"]["controls_covered"][standard_id].update(controls)
UpdateControls(covered, controls) == covered \cup Range(controls)

\* the report before any policy is examined ("details" and the two summary
\* collections; total_policies is len(policies) throughout)
EmptyReport ==
  [details |-> EmptyDict, standards_covered |-> {}, controls_covered |-> EmptyDict]

\* one iteration of the loop over policies
ReportPolicy(stds, report, policy) ==
  LET policy_name == PolicyName(policy)
      mapping == MapPolicyToStandardsOf(stds, policy)
  IN [details |->
        [n \in DOMAIN report.details \cup {policy_name} |->
           IF n = policy_name
           THEN [policy_name |-> policy_name, standards |-> mapping]
           ELSE report.details[n]],
      standards_covered |-> report.standards_covered \cup DOMAIN mapping,
      controls_covered |->
        [s \in DOMAIN report.controls_covered \cup DOMAIN mapping |->
           IF s \in DOMAIN mapping
           THEN UpdateControls(Get(report.controls_covered, s, {}), mapping[s])
           ELSE report.controls_covered[s]]]

RECURSIVE ReportPolicies(_, _, _, _)
ReportPolicies(stds, report, policies, i) ==
  IF i > Len(policies) THEN report
  ELSE ReportPolicies(stds, ReportPolicy(stds, report, policies[i]), policies, i + 1)

\* the reports the call can return: the summary sets are converted to
\* lists, in any order
ComplianceReports(stds, policies) ==
  LET report == ReportPolicies(stds, EmptyReport, policies, 1)
  IN {[summary |-> [total_policies |-> Len(policies),
                    standards_covered |-> sc,
                    controls_covered |-> cc],
       details |-> report.details] :
        sc \in ListsOf(report.standards_covered),
        cc \in {f \in [DOMAIN report.controls_covered ->
                         UNION {ListsOf(report.controls_covered[s]) :
                                  s \in DOMAIN report.controls_covered}] :
                  \A s \in DOMAIN f : f[s] \in ListsOf(report.controls_covered[s])}}

----------------------------------------------------------------------------
(* check_compliance_gap *)

MsgPrefix == <<"S", "t", "a", "n", "d", "a", "r", "d", " ">>
MsgSuffix == <<" ", "n", "o", "t", " ", "f", "o", "u", "n", "d">>

\* raise ValueError(f"Standard {required_standard} not found")
UnknownStandardError(required_standard) ==
  [kind |-> "ValueError", message |-> MsgPrefix \o required_standard \o MsgSuffix]

\* the loop over policies: implemented_controls.update(mapping[required_standard])
RECURSIVE ImplementedBy(_, _, _, _)
ImplementedBy(stds, required_standard, policies, i) ==
  IF i > Len(policies) THEN {}
  ELSE LET mapping == MapPolicyToStandardsOf(stds, policies[i])
       IN (IF required_standard \in DOMAIN mapping
           THEN Range(mapping[required_standard]) ELSE {})
          \cup ImplementedBy(stds, required_standard, policies, i + 1)

\* a plausible slip: every required control is reported missing
MissingControlsAll(required_set, implemented) == required_set

\* missing_controls = required_set - implemented_controls
MissingControls(required_set, implemented) == required_set \ implemented

\* a plausible slip: the implemented controls are not restricted to the
\* required ones
ImplementedReportedUnrestricted(implemented, required_set) == implemented

\* implemented_controls = implemented_controls & required_set
ImplementedReported(implemented, required_set) == implemented \cap required_set

\* n / d * 100 for d > 0: the division rounds to a double, the
\* multiplication by 100.0 rounds again
Percentage(n, d) == DoubleMultiply(DoubleDivide(n, d), DoubleOfNat(100))

\* Percentage for the lengths the bounded calls reach, evaluated once
PercentageTable ==
  [d \in 1..MaxRequired |-> [n \in 0..d |-> Percentage(n, d)]]

PercentageOf(n, d) ==
  IF d \in DOMAIN PercentageTable /\ n \in DOMAIN PercentageTable[d]
  THEN PercentageTable[d][n]
  ELSE Percentage(n, d)

\* a plausible slip: an empty requirement list counts as fully covered
CoveragePercentageGuarded(n, d) ==
  IF d = 0 THEN [kind |-> "ok", value |-> DoubleOfNat(100)]
  ELSE [kind |-> "ok", value |-> PercentageOf(n, d)]

\* len(implemented_controls) / len(required_controls) * 100; dividing by
\* zero raises ZeroDivisionError
CoveragePercentage(n, d) ==
  IF d = 0 THEN [kind |-> "ZeroDivisionError"]
  ELSE [kind |-> "ok", value |-> PercentageOf(n, d)]

\* the outcomes the call can have once the standard is known
GapResults(stds, required_standard, required_controls, policies) ==
  LET implemented == ImplementedBy(stds, required_standard, policies, 1)
      required_set == Range(required_controls)
      missing == MissingControls(required_set, implemented)
      reported == ImplementedReported(implemented, required_set)
      coverage == CoveragePercentage(Cardinality(reported), Len(required_controls))
  IN IF coverage.kind = "ZeroDivisionError"
     THEN {[kind |-> "ZeroDivisionError"]}
     ELSE {[kind |-> "ok",
            result |-> [standard |-> required_standard,
                        required_controls |-> required_controls,
                        implemented_controls |-> il,
                        missing_controls |-> ml,
                        coverage_percentage |-> coverage.value]] :
             il \in ListsOf(reported), ml \in ListsOf(missing)}

----------------------------------------------------------------------------
(* The catalog and the inputs *)

SOC2 == <<"S", "O", "C", "-", "2">>
ISO9999 == <<"I", "S", "O", "-", "9", "9", "9", "9">>
GDPR == <<"G", "D", "P", "R">>
S2 == <<"S", "-", "2">>
CC61 == <<"C", "C", "6", ".", "1">>
CC62 == <<"C", "C", "6", ".", "2">>
A5 == <<"A", "5">>
CC_6_1 == <<"C", "C", "-", "6", "-", "1">>

\* ComplianceControl(id, title, description, severity, checks)
Control(id) ==
  [id |-> id, title |-> "title", description |-> "description",
   severity |-> "medium", checks |-> <<>>]

\* ComplianceStandard(id, name, version, controls)
Standard(id, controls) ==
  [id |-> id, name |-> "name", version |-> "1.0",
   controls |-> controls]

\* self.standards as _load_standards can leave it: standards[standard.id] = standard
Catalogs ==
  {[k \in {SOC2, GDPR} |->
      IF k = SOC2 THEN Standard(SOC2, <<Control(CC61), Control(CC62)>>) ELSE Standard(GDPR, <<Control(A5)>>)],
   [k \in {SOC2, ISO9999, S2} |->
      IF k = SOC2 THEN Standard(SOC2, <<Control(CC61), Control(CC62)>>)
      ELSE IF k = ISO9999 THEN Standard(ISO9999, <<Control(CC61)>>)
      ELSE Standard(S2, <<Control(A5)>>)]}

\* reference strings enumerated character by character
RefChars == {"S", "2", "-"}
RefStrings == SeqsUpTo(RefChars, MaxRefLen) \cup {SOC2 \o Hyphen \o CC_6_1}

\* references a policy's metadata.compliance can hold
ControlRefs == {SOC2 \o Hyphen \o CC61, SOC2 \o Hyphen \o CC62}
BatchRefs == ControlRefs \cup {SOC2, ISO9999 \o Hyphen \o CC61}
PolicyRefs == BatchRefs \cup {GDPR, GDPR \o Hyphen \o A5, SOC2 \o Hyphen \o CC_6_1}

\* policies: 'metadata', its 'name' and its 'compliance' may each be absent
PoliciesOf(names, lists) ==
  {EmptyDict, [metadata |-> EmptyDict]}
    \cup {[metadata |-> [name |-> n]] : n \in names}
    \cup {[metadata |-> [compliance |-> c]] : c \in lists}
    \cup {[metadata |-> [name |-> n, compliance |-> c]] : n \in names, c \in lists}

\* the policies passed to map_policy_to_standards
Policies == PoliciesOf({"p1"}, SeqsUpTo(PolicyRefs, MaxRefs))

\* the compliance lists of the policies passed in batches
BatchLists ==
  {<<>>} \cup {<<r>> : r \in BatchRefs} \cup {<<r, s>> : r \in ControlRefs, s \in ControlRefs}

\* the policies of a report's batch: names may be absent and may collide
ReportPolicyPool == PoliciesOf({"p1"}, BatchLists)

\* the compliance lists of a gap check's batch; a gap check collects the
\* controls into a set, so one list of two references is enough
GapLists ==
  {<<>>} \cup {<<r>> : r \in BatchRefs}
         \cup {<<SOC2 \o Hyphen \o CC62, SOC2 \o Hyphen \o CC61>>}

\* the policies of a gap check's batch, which never reads their names
GapPolicyPool == PoliciesOf({}, GapLists)

RequiredStandards == {SOC2, ISO9999}
RequiredControlIds == {CC61, CC62}

----------------------------------------------------------------------------
(* The state machine: the mapper is constructed, then called; a call runs  *)
(* to completion and its outcome is handed to the caller                   *)

NoCall == [op |-> "none"]
NoResult == [kind |-> "none"]

Init ==
  /\ standards \in Catalogs
  /\ pc = "idle"
  /\ call = NoCall
  /\ ret = NoResult
  /\ examined = 0

\* lines 81-90 applied to one reference string
ParseReference ==
  /\ pc = "idle"
  /\ \E ref \in RefStrings :
       /\ call' = [op |-> "parse", ref |-> ref]
       /\ ret' = [kind |-> "ok", parsed |-> ParseResult(standards, ref)]
  /\ pc' = "returned"
  /\ examined' = 0
  /\ UNCHANGED standards

MapPolicyToStandards ==
  /\ pc = "idle"
  /\ \E policy \in Policies :
       /\ call' = [op |-> "map", policy |-> policy]
       /\ ret' = [kind |-> "ok", mapping |-> MapPolicyToStandardsOf(standards, policy)]
  /\ pc' = "returned"
  /\ examined' = 1
  /\ UNCHANGED standards

GenerateComplianceReport ==
  /\ pc = "idle"
  /\ \E policies \in SeqsUpTo(ReportPolicyPool, MaxPolicies) :
       /\ call' = [op |-> "report", policies |-> policies]
       /\ \E report \in ComplianceReports(standards, policies) :
            ret' = [kind |-> "ok", report |-> report]
       /\ examined' = Len(policies)
  /\ pc' = "returned"
  /\ UNCHANGED standards

CheckComplianceGap ==
  /\ pc = "idle"
  /\ \E required_standard \in RequiredStandards,
        required_controls \in SeqsUpTo(RequiredControlIds, MaxRequired),
        policies \in SeqsUpTo(GapPolicyPool, MaxPolicies) :
       /\ call' = [op |-> "gap", required_standard |-> required_standard,
                   required_controls |-> required_controls, policies |-> policies]
       /\ IF ~StandardKnown(standards, required_standard)
          THEN /\ ret' = UnknownStandardError(required_standard)
               /\ examined' = 0
          ELSE /\ \E result \in GapResults(standards, required_standard,
                                           required_controls, policies) :
                    ret' = result
               /\ examined' = Len(policies)
  /\ pc' = "returned"
  /\ UNCHANGED standards

\* the caller has the outcome; the mapper is ready for the next call
Return ==
  /\ pc = "returned"
  /\ pc' = "idle"
  /\ call' = NoCall
  /\ ret' = NoResult
  /\ examined' = 0
  /\ UNCHANGED standards

Next ==
  \/ ParseReference
  \/ MapPolicyToStandards
  \/ GenerateComplianceReport
  \/ CheckComplianceGap
  \/ Return

Spec == Init /\ [][Next]_vars

----------------------------------------------------------------------------
(* Vocabulary of the properties *)

Returned(op) == pc = "returned" /\ call.op = op

\* the number of hyphens of a string; it has one token more than hyphens
Hyphens(s) == Cardinality({i \in DOMAIN s : s[i] = "-"})

IsPrefix(p, s) == Len(p) <= Len(s) /\ SubSeq(s, 1, Len(p)) = p

NoDuplicates(q) == \A i, j \in DOMAIN q : q[i] = q[j] => i = j

\* ref names the standard sid and nothing else: it is the id itself, of one
\* or two tokens
BareRefTo(ref, sid) == ref = sid /\ Hyphens(ref) <= 1

\* ref names the standard sid followed by a control id
ControlRefTo(ref, sid) ==
  Hyphens(sid) = 1 /\ Hyphens(ref) >= 2 /\ IsPrefix(sid \o Hyphen, ref)

\* the control id that such a reference carries: what follows "sid-"
ControlOf(ref, sid) == SubSeq(ref, Len(sid) + 2, Len(ref))

\* the policy of a map call and its compliance list
CalledRefs == ComplianceRefs(call.policy)

\* a standard that the called policy names bare and never with a control id
BareOnly(sid) ==
  /\ sid \in DOMAIN standards
  /\ \E i \in DOMAIN CalledRefs : BareRefTo(CalledRefs[i], sid)
  /\ \A i \in DOMAIN CalledRefs : ~ControlRefTo(CalledRefs[i], sid)

\* x <= y for doubles that are zero or positive
DoubleLe(x, y) ==
  \/ x.mant = <<>>
  \/ /\ y.mant # <<>>
     /\ \/ x.exp < y.exp
        \/ /\ x.exp = y.exp
           /\ \/ x.mant = y.mant
              \/ \E i \in 1..MantissaBits :
                   /\ x.mant[i] < y.mant[i]
                   /\ \A j \in 1..(i - 1) : x.mant[j] = y.mant[j]

----------------------------------------------------------------------------
(* C1 *)

\* C1 (as stated): a catalog standard that a policy names only without a
\* control id is not a key of the mapping map_policy_to_standards returns.
C1_BareStandardNotMapped ==
  Returned("map") =>
    \A sid \in DOMAIN standards : BareOnly(sid) => sid \notin DOMAIN ret.mapping

\* C1 (amended): a catalog standard that a policy names only without a
\* control id is a key of the returned mapping, with an empty control list.
C1_BareStandardMappedEmpty ==
  Returned("map") =>
    \A sid \in DOMAIN standards :
      BareOnly(sid) => sid \in DOMAIN ret.mapping /\ ret.mapping[sid] = <<>>

C1_Witness ==
  /\ Returned("map")
  /\ CalledRefs = <<SOC2>>
  /\ DOMAIN ret.mapping = {SOC2}
  /\ ret.mapping[SOC2] = <<>>

----------------------------------------------------------------------------
(* C2 *)

\* the called policy without its references to standards not in the catalog
KnownRefsPolicy ==
  [metadata |->
     [compliance |->
        SelectSeq(CalledRefs, LAMBDA r : StandardId(r) \in DOMAIN standards)]]

\* C2: a reference to a standard that is not in the catalog contributes
\* nothing to the mapping: every key of the mapping is a catalog key, the
\* mapping is the one of the policy without those references, the call
\* raises nothing, and a policy without metadata or without a compliance
\* list maps to the empty mapping.
C2_UnknownStandardIgnored ==
  Returned("map") =>
    /\ ret.kind = "ok"
    /\ DOMAIN ret.mapping \subseteq DOMAIN standards
    /\ \A i \in DOMAIN CalledRefs :
         StandardId(CalledRefs[i]) \notin DOMAIN standards
           => StandardId(CalledRefs[i]) \notin DOMAIN ret.mapping
    /\ ret.mapping = MapPolicyToStandardsOf(standards, KnownRefsPolicy)
    /\ ("metadata" \notin DOMAIN call.policy => DOMAIN ret.mapping = {})
    /\ ("metadata" \in DOMAIN call.policy
          /\ "compliance" \notin DOMAIN call.policy.metadata
        => DOMAIN ret.mapping = {})

C2_Witness ==
  /\ Returned("map")
  /\ ISO9999 \notin DOMAIN standards
  /\ CalledRefs = <<ISO9999 \o Hyphen \o CC61, SOC2 \o Hyphen \o CC62>>
  /\ DOMAIN ret.mapping = {SOC2}
  /\ ret.mapping[SOC2] = <<CC62>>

----------------------------------------------------------------------------
(* C3 *)

\* C3 (as stated): parsing accepts every reference.  With one token (no
\* hyphen) or two tokens (one hyphen) the standard id is the whole reference
\* and there is no control id; with more tokens the standard id is the first
\* two tokens joined by a hyphen and the control id is all the rest, hyphens
\* included, so that standard id, hyphen and control id spell the reference.
C3_ParseRule ==
  Returned("parse") =>
    LET ref == call.ref
        parsed == ret.parsed
        tokens == Split(ref)
    IN /\ ret.kind = "ok"
       /\ Len(tokens) = Hyphens(ref) + 1
       /\ Len(tokens) < 2 => parsed.standard_id = ref
       /\ Len(tokens) >= 2 =>
            /\ parsed.standard_id = tokens[1] \o Hyphen \o tokens[2]
            /\ Hyphens(parsed.standard_id) = 1
            /\ IsPrefix(parsed.standard_id, ref)
       /\ Len(tokens) <= 2 => "control_id" \notin DOMAIN parsed
       /\ Len(tokens) > 2 =>
            /\ "control_id" \in DOMAIN parsed
            /\ parsed.standard_id \o Hyphen \o parsed.control_id = ref
            /\ Hyphens(parsed.control_id) = Len(tokens) - 3

\* C3 (amended): parsing accepts every reference and the standard id follows
\* the rule above for every reference; the control id is computed exactly
\* when the reference has more than two tokens and its standard id is a key
\* of the catalog, and then it is all the tokens after the second, hyphens
\* included, so that standard id, hyphen and control id spell the reference.
C3_ParseRuleKnownStandard ==
  Returned("parse") =>
    LET ref == call.ref
        parsed == ret.parsed
        tokens == Split(ref)
    IN /\ ret.kind = "ok"
       /\ Len(tokens) = Hyphens(ref) + 1
       /\ Len(tokens) < 2 => parsed.standard_id = ref
       /\ Len(tokens) >= 2 =>
            /\ parsed.standard_id = tokens[1] \o Hyphen \o tokens[2]
            /\ Hyphens(parsed.standard_id) = 1
            /\ IsPrefix(parsed.standard_id, ref)
       /\ "control_id" \in DOMAIN parsed
            <=> (Len(tokens) > 2 /\ parsed.standard_id \in DOMAIN standards)
       /\ "control_id" \in DOMAIN parsed =>
            /\ parsed.standard_id \o Hyphen \o parsed.control_id = ref
            /\ Hyphens(parsed.control_id) = Len(tokens) - 3

C3_Witness ==
  /\ Returned("parse")
  /\ call.ref = SOC2 \o Hyphen \o CC_6_1
  /\ "control_id" \in DOMAIN ret.parsed
  /\ ret.parsed.standard_id = SOC2
  /\ ret.parsed.control_id = CC_6_1

----------------------------------------------------------------------------
(* C4 *)

\* some policy of the batch references control c under standard sid
ReferencedBy(policies, sid, c) ==
  \E i \in DOMAIN policies :
    \E j \in DOMAIN ComplianceRefs(policies[i]) :
      LET ref == ComplianceRefs(policies[i])[j]
      IN ControlRefTo(ref, sid) /\ ControlOf(ref, sid) = c

GapOk == Returned("gap") /\ ret.kind = "ok"

\* C4: in every gap result the implemented and the missing controls are
\* disjoint and together are exactly the required controls; a required
\* control is implemented exactly when some policy of the batch references
\* it under the target standard.
C4_GapPartition ==
  GapOk =>
    LET implemented == Range(ret.result.implemented_controls)
        missing == Range(ret.result.missing_controls)
        required == Range(call.required_controls)
    IN /\ implemented \cap missing = {}
       /\ implemented \cup missing = required
       /\ \A c \in required :
            c \in implemented
              <=> ReferencedBy(call.policies, call.required_standard, c)

C4_Witness ==
  /\ GapOk
  /\ call.required_controls = <<CC61>>
  /\ call.policies = <<[metadata |-> [compliance |-> <<SOC2 \o Hyphen \o CC62, SOC2 \o Hyphen \o CC61>>]],
                       [metadata |-> [compliance |-> <<SOC2>>]]>>
  /\ ret.result.implemented_controls = <<CC61>>
  /\ ret.result.missing_controls = <<>>

----------------------------------------------------------------------------
(* C5 *)

\* C5: a gap check for a standard that is not in the catalog ends in the
\* unknown-standard error, whose message carries the standard id, whatever
\* the required controls and the policies are; no policy has been examined
\* by then, and no call ever changes the catalog.
C5_UnknownStandardError ==
  /\ [](Returned("gap") /\ call.required_standard \notin DOMAIN standards
          => /\ ret.kind = "ValueError"
             /\ ret.message = MsgPrefix \o call.required_standard \o MsgSuffix
             /\ examined = 0)
  /\ [][standards' = standards]_vars

C5_Witness ==
  /\ Returned("gap")
  /\ call.required_standard = ISO9999
  /\ ISO9999 \notin DOMAIN standards
  /\ call.required_controls = <<CC61>>
  /\ Len(call.policies) = MaxPolicies
  /\ ret.kind = "ValueError"
  /\ examined = 0

----------------------------------------------------------------------------
(* C6 *)

\* C6: a gap check for a known standard with an empty list of required
\* controls ends in a division-by-zero error, whatever the policies are; no
\* coverage value is produced.
C6_EmptyRequiredDivisionByZero ==
  Returned("gap") /\ call.required_standard \in DOMAIN standards
                  /\ call.required_controls = <<>>
    => ret.kind = "ZeroDivisionError"

C6_Witness ==
  /\ Returned("gap")
  /\ call.required_standard = SOC2
  /\ call.required_controls = <<>>
  /\ call.policies = <<[metadata |-> [compliance |-> <<SOC2 \o Hyphen \o CC61>>]]>>
  /\ ret.kind = "ZeroDivisionError"

----------------------------------------------------------------------------
(* C7 *)

\* C7: in every gap result the coverage percentage lies between 0 and 100,
\* and it is the number of distinct required controls implemented, divided
\* by the length of the required list (duplicates counted), times 100, each
\* of the two operations rounded to a double.
C7_CoverageBound ==
  GapOk =>
    LET coverage == ret.result.coverage_percentage
        implemented == Range(ret.result.implemented_controls)
    IN /\ DoubleLe(DoubleZero, coverage)
       /\ DoubleLe(coverage, DoubleOfNat(100))
       /\ implemented \subseteq Range(call.required_controls)
       /\ coverage = PercentageOf(Cardinality(implemented),
                                  Len(call.required_controls))

\* one of three listed controls is implemented: 33.33333333333333
C7_Witness ==
  /\ GapOk
  /\ call.required_controls = <<CC61, CC62, CC62>>
  /\ ret.result.implemented_controls = <<CC61>>
  /\ ret.result.coverage_percentage = Percentage(1, 3)
  /\ DoubleLe(DoubleOfNat(33), ret.result.coverage_percentage)
  /\ DoubleLe(ret.result.coverage_percentage, DoubleOfNat(34))
  /\ ret.result.coverage_percentage \notin {DoubleOfNat(33), DoubleOfNat(34)}

----------------------------------------------------------------------------
(* C8 *)

\* the sequence policies reordered by the permutation f of its indices
Reordered(policies, f) == [i \in DOMAIN policies |-> policies[f[i]]]

IndexPermutations(n) == {f \in [1..n -> 1..n] : Range(f) = 1..n}

\* C8: in every report, the summary's controls of a standard are the union
\* of the controls that the batch's policies map to that standard, and the
\* summary's standards are the union of the keys of the policies' mappings;
\* reordering the batch changes neither.
C8_AggregationUnion ==
  Returned("report") =>
    LET policies == call.policies
        summary == ret.report.summary
        mappings == [i \in DOMAIN policies |->
                       MapPolicyToStandardsOf(standards, policies[i])]
        keys == UNION {DOMAIN mappings[i] : i \in DOMAIN policies}
        union(s) == UNION {Range(Get(mappings[i], s, <<>>)) : i \in DOMAIN policies}
    IN /\ ret.kind = "ok"
       /\ Range(summary.standards_covered) = keys
       /\ DOMAIN summary.controls_covered = keys
       /\ \A s \in DOMAIN standards \cup RequiredStandards \cup {GDPR} :
            Range(Get(summary.controls_covered, s, <<>>)) = union(s)
       /\ \A f \in IndexPermutations(Len(policies)) :
            LET other == ReportPolicies(standards, EmptyReport,
                                        Reordered(policies, f), 1)
            IN /\ other.standards_covered = Range(summary.standards_covered)
               /\ DOMAIN other.controls_covered = DOMAIN summary.controls_covered
               /\ \A s \in DOMAIN other.controls_covered :
                    other.controls_covered[s] = Range(summary.controls_covered[s])

C8_Witness ==
  /\ Returned("report")
  /\ call.policies = <<[metadata |-> [compliance |-> <<SOC2 \o Hyphen \o CC61>>]],
                       [metadata |-> [compliance |-> <<SOC2 \o Hyphen \o CC62>>]]>>
  /\ DOMAIN ret.report.details = {"unknown"}
  /\ ret.report.summary.standards_covered = <<SOC2>>
  /\ Range(ret.report.summary.controls_covered[SOC2]) = {CC61, CC62}

----------------------------------------------------------------------------
(* C9 *)

\* refs without the later occurrences of a reference already listed
RECURSIVE ListedOnce(_)
ListedOnce(refs) ==
  IF refs = <<>> THEN <<>>
  ELSE LET front == ListedOnce(SubSeq(refs, 1, Len(refs) - 1))
           last == refs[Len(refs)]
       IN IF last \in Range(front) THEN front ELSE Append(front, last)

\* the control ids of the references of refs that name sid with a control
\* id, one per occurrence, in the order of refs
RECURSIVE ControlsInOrder(_, _)
ControlsInOrder(refs, sid) ==
  IF refs = <<>> THEN <<>>
  ELSE LET front == ControlsInOrder(SubSeq(refs, 1, Len(refs) - 1), sid)
           last == refs[Len(refs)]
       IN IF ControlRefTo(last, sid) THEN Append(front, ControlOf(last, sid))
          ELSE front

\* mapping is what C9 as stated says of a policy with these references
CollapsedMappingOf(mapping, refs) ==
  /\ \A s \in DOMAIN mapping : NoDuplicates(mapping[s])
  /\ mapping = MapPolicyToStandardsOf(standards, [metadata |-> [compliance |-> ListedOnce(refs)]])

\* mapping is what C9 as amended says of a policy with these references
OccurrenceMappingOf(mapping, refs) ==
  LET once == MapPolicyToStandardsOf(standards, [metadata |-> [compliance |-> ListedOnce(refs)]])
  IN /\ \A s \in DOMAIN mapping : mapping[s] = ControlsInOrder(refs, s)
     /\ DOMAIN mapping = DOMAIN once
     /\ \A s \in DOMAIN mapping : Range(mapping[s]) = Range(once[s])

\* the last policy of the batch that bears the name n
LastNamed(policies, n) ==
  policies[CHOOSE i \in DOMAIN policies :
             /\ PolicyName(policies[i]) = n
             /\ \A j \in DOMAIN policies : PolicyName(policies[j]) = n => j <= i]

\* C9 (as stated): the per-policy mapping, as returned and as stored in a
\* report's details, holds each control id at most once per standard, and
\* is the mapping of the policy with every reference listed once.
C9_ControlsListedOnce ==
  /\ Returned("map") => CollapsedMappingOf(ret.mapping, CalledRefs)
  /\ Returned("report") =>
       \A n \in DOMAIN ret.report.details :
         CollapsedMappingOf(ret.report.details[n].standards,
                            ComplianceRefs(LastNamed(call.policies, n)))

\* C9 (amended): the per-policy mapping, as returned and as stored in a
\* report's details, holds per standard one control id for each occurrence
\* of a reference, in the order of the compliance list; it has the keys,
\* and per key the set of control ids, of the mapping of the policy with
\* every reference listed once.
C9_ControlsListedPerOccurrence ==
  /\ Returned("map") => OccurrenceMappingOf(ret.mapping, CalledRefs)
  /\ Returned("report") =>
       \A n \in DOMAIN ret.report.details :
         OccurrenceMappingOf(ret.report.details[n].standards,
                             ComplianceRefs(LastNamed(call.policies, n)))

C9_Witness ==
  /\ Returned("map")
  /\ CalledRefs = <<SOC2 \o Hyphen \o CC61, SOC2 \o Hyphen \o CC61>>
  /\ ret.mapping[SOC2] = <<CC61, CC61>>

----------------------------------------------------------------------------
(* C10 *)

\* C10: in every gap result the coverage percentage is 100 exactly when no
\* required control is missing, also when the required list names a control
\* more than once.
C10_FullCoverageIffNothingMissing ==
  GapOk =>
    LET coverage == ret.result.coverage_percentage
    IN (coverage = DoubleOfNat(100)) <=> (ret.result.missing_controls = <<>>)

====
